---- MODULE Spec2Model ----
(***************************************************************************)
(* Financial-ledger domain model of budget-cli: Money, Account,            *)
(* CreditCard, Bill and CreditCardInvoice entities and the use cases that  *)
(* drive them.  Money amounts are integers in cents: every Money value is  *)
(* built by NewMoney, which rounds to two decimals, so a stored amount is  *)
(* always a whole number of cents.                                         *)
(***************************************************************************)
EXTENDS Integers, Sequences, FiniteSets, TLC

VARIABLES account, card, charged, bill, invoice, transaction, db, now, last

vars == <<account, card, charged, bill, invoice, transaction, db, now, last>>

(***************************************************************************)
(* Bounds of the model.                                                    *)
(***************************************************************************)
\* amounts passed to the entity methods range over -MaxAmount..MaxAmount cents
MaxAmount == 2
\* balances and paid amounts are kept within -MaxBalance..MaxBalance cents
MaxBalance == 3
\* amounts passed to the invoice methods range over
\* -MaxInvoiceAmount..MaxInvoiceAmount cents
MaxInvoiceAmount == 1
\* invoice totals are kept within -MaxTotal..MaxTotal cents
MaxTotal == 2
\* cards are created with a credit limit in 0..MaxLimit cents
MaxLimit == 2
\* the clock runs over 0..MaxTime
MaxTime == 1
\* callers name the transactions 1..MaxTxn
MaxTxn == 1
\* an invoice lists at most MaxIDs transaction ids
MaxIDs == 1
\* shared expenses name the people 1..MaxPeople, and SplitEqually takes at
\* most MaxPeople of them
MaxPeople == 2
\* a transaction lists at most MaxShares shared expenses
MaxShares == 3
\* AddSharedExpense is called with percentages -25, 0, 25, .. 25 * MaxQuarters
MaxQuarters == 5
\* shared transactions are of 100.00 or of -MaxSharedAmount..MaxSharedAmount cents
MaxSharedAmount == 1
\* the transaction store holds at most MaxStored transactions
MaxStored == 1
\* a stored invoice lists at most MaxLines transaction ids
MaxLines == 1
\* stored balances are kept within -MaxStoredBalance..MaxStoredBalance cents
MaxStoredBalance == 1
\* the invoice store holds at most MaxInvoices invoices
MaxInvoices == 3
MaxMonth == 2
MaxTransfer == 2
MaxLedgerBalance == 2
MaxBills == 2

Amounts == (0 - MaxAmount)..MaxAmount
Currencies == {"BRL", "USD"}
Times == 0..MaxTime
InBalance(m) == m.amount >= 0 - MaxBalance /\ m.amount <= MaxBalance

(***************************************************************************)
(* valueobject.Money                                                       *)
(***************************************************************************)
\* cents is the argument already multiplied by 100 and rounded
NewMoney(cents, currency) == [amount |-> cents, currency |-> currency]

NoMoney == [amount |-> 0, currency |-> ""]

Add(m, other) ==
    IF m.currency # other.currency
    THEN [err |-> "currency mismatch", val |-> NoMoney]
    ELSE [err |-> "", val |-> NewMoney(m.amount + other.amount, m.currency)]

Subtract(m, other) ==
    IF m.currency # other.currency
    THEN [err |-> "currency mismatch", val |-> NoMoney]
    ELSE [err |-> "", val |-> NewMoney(m.amount - other.amount, m.currency)]

IsNegative(m) == m.amount < 0

IsZero(m) == m.amount = 0

Equals(m, other) == m.amount = other.amount /\ m.currency = other.currency

MoneyArgs == {NewMoney(c, cur) : c \in Amounts, cur \in Currencies}

InvoiceAmounts == (0 - MaxInvoiceAmount)..MaxInvoiceAmount
\* invoices are kept in BRL; the amounts passed to them are in BRL or, for the
\* currency check, one cent in USD
InvoiceMoneyArgs == {NewMoney(c, "BRL") : c \in InvoiceAmounts} \cup {NewMoney(1, "USD")}
\* the balance an invoice carries over from the previous one
PreviousBalances == {NewMoney(c, "BRL") : c \in {-1, 0, 1}}
InTotal(m) == m.amount >= 0 - MaxTotal /\ m.amount <= MaxTotal

\* the record of the last call: the method, its Money argument, its result
\* and the entity as it was before the call
Call(op, amount, err, before) ==
    [op |-> op, amount |-> amount, err |-> err, before |-> before]

(***************************************************************************)
(* entity.Account                                                          *)
(***************************************************************************)
AccountTypeChecking == "checking"
AccountTypeSavings == "savings"
AccountTypeInvestment == "investment"
AccountTypes == {AccountTypeChecking, AccountTypeSavings, AccountTypeInvestment}

NewAccount(accountType, initialBalance) ==
    [Type |-> accountType, Balance |-> initialBalance]

Deposit(a, amount) ==
    LET r == Add(a.Balance, amount)
    IN  IF r.err # ""
        THEN [err |-> r.err, acc |-> a]
        ELSE [err |-> "", acc |-> [a EXCEPT !.Balance = r.val]]

WithdrawOnlySavingsChecked(a, amount) ==
    LET r == Subtract(a.Balance, amount)
    IN  IF r.err # ""
        THEN [err |-> r.err, acc |-> a]
        ELSE IF IsNegative(r.val) /\ a.Type = AccountTypeSavings
        THEN [err |-> "insufficient funds", acc |-> a]
        ELSE [err |-> "", acc |-> [a EXCEPT !.Balance = r.val]]

Withdraw(a, amount) ==
    LET r == Subtract(a.Balance, amount)
    IN  IF r.err # ""
        THEN [err |-> r.err, acc |-> a]
        ELSE IF IsNegative(r.val) /\ a.Type # AccountTypeChecking
        THEN [err |-> "insufficient funds", acc |-> a]
        ELSE [err |-> "", acc |-> [a EXCEPT !.Balance = r.val]]

(***************************************************************************)
(* entity.CreditCard                                                       *)
(***************************************************************************)
\* credit limits of the cards that are created, in cents; NewCreditCard takes
\* the limit as given, and the card form passes positive limits only
Limits == 0..MaxLimit

NewCreditCard(creditLimit) ==
    [CreditLimit |-> creditLimit,
     CurrentBalance |-> NewMoney(0, creditLimit.currency)]

ChargeStrictLimit(c, amount) ==
    LET r == Add(c.CurrentBalance, amount)
    IN  IF r.err # ""
        THEN [err |-> r.err, card |-> c]
        ELSE LET availableCredit == Subtract(c.CreditLimit, r.val)
             IN  IF availableCredit.err # ""
                 THEN [err |-> availableCredit.err, card |-> c]
                 ELSE IF IsNegative(availableCredit.val) \/ IsZero(availableCredit.val)
                 THEN [err |-> "credit limit exceeded", card |-> c]
                 ELSE [err |-> "", card |-> [c EXCEPT !.CurrentBalance = r.val]]

Charge(c, amount) ==
    LET r == Add(c.CurrentBalance, amount)
    IN  IF r.err # ""
        THEN [err |-> r.err, card |-> c]
        ELSE LET availableCredit == Subtract(c.CreditLimit, r.val)
             IN  IF availableCredit.err # ""
                 THEN [err |-> availableCredit.err, card |-> c]
                 ELSE IF IsNegative(availableCredit.val)
                 THEN [err |-> "credit limit exceeded", card |-> c]
                 ELSE [err |-> "", card |-> [c EXCEPT !.CurrentBalance = r.val]]

Payment(c, amount) ==
    LET r == Subtract(c.CurrentBalance, amount)
    IN  IF r.err # ""
        THEN [err |-> r.err, card |-> c]
        ELSE IF IsNegative(r.val)
        THEN [err |-> "", card |-> [c EXCEPT !.CurrentBalance =
                                        NewMoney(0, c.CurrentBalance.currency)]]
        ELSE [err |-> "", card |-> [c EXCEPT !.CurrentBalance = r.val]]

(***************************************************************************)
(* entity.Bill                                                             *)
(***************************************************************************)
BillStatusOpen == "open"
BillStatusClosed == "closed"
BillStatusPaid == "paid"
BillStatusOverdue == "overdue"

\* a bill created at time t; the date checks of NewBill are on the
\* start/end/due dates only and the due date is the one the status rule reads
NewBill(dueDate, totalAmount, t) ==
    [TotalAmount |-> totalAmount,
     PaidAmount |-> NewMoney(0, totalAmount.currency),
     Status |-> BillStatusOpen,
     DueDate |-> dueDate,
     UpdatedAt |-> t]

updateStatusOverdueFirst(b, t) ==
    IF t > b.DueDate /\ b.Status # BillStatusPaid
    THEN [b EXCEPT !.Status = BillStatusOverdue]
    ELSE IF Equals(b.PaidAmount, b.TotalAmount)
    THEN [b EXCEPT !.Status = BillStatusPaid]
    ELSE b

updateStatus(b, t) ==
    IF Equals(b.PaidAmount, b.TotalAmount)
    THEN [b EXCEPT !.Status = BillStatusPaid]
    ELSE IF t > b.DueDate /\ ~Equals(b.PaidAmount, b.TotalAmount)
    THEN [b EXCEPT !.Status = BillStatusOverdue]
    ELSE b

AddPayment(b, amount, t) ==
    LET r == Add(b.PaidAmount, amount)
    IN  IF r.err # ""
        THEN [err |-> r.err, bill |-> b]
        ELSE [err |-> "",
              bill |-> updateStatus([b EXCEPT !.PaidAmount = r.val, !.UpdatedAt = t], t)]

BillCloseOnlyPaidChecked(b, t) ==
    IF b.Status = BillStatusPaid
    THEN [err |-> "bill is already " \o b.Status, bill |-> b]
    ELSE [err |-> "", bill |-> [b EXCEPT !.Status = BillStatusClosed, !.UpdatedAt = t]]

\* Bill.Close
BillClose(b, t) ==
    IF b.Status = BillStatusPaid \/ b.Status = BillStatusClosed
    THEN [err |-> "bill is already " \o b.Status, bill |-> b]
    ELSE [err |-> "", bill |-> [b EXCEPT !.Status = BillStatusClosed, !.UpdatedAt = t]]

(***************************************************************************)
(* entity.CreditCardInvoice                                                *)
(***************************************************************************)
InvoiceStatusOpen == "open"
InvoiceStatusClosed == "closed"
InvoiceStatusPaid == "paid"
InvoiceStatusOverdue == "overdue"

NewCreditCardInvoice(dueDate, previousBalance) ==
    [PreviousBalance |-> previousBalance,
     TotalCharges |-> NewMoney(0, previousBalance.currency),
     TotalPayments |-> NewMoney(0, previousBalance.currency),
     ClosingBalance |-> previousBalance,
     Status |-> InvoiceStatusOpen,
     TransactionIDs |-> <<>>,
     DueDate |-> dueDate]

recalculateBalanceChargesOnly(i) ==
    LET balanceWithCharges == Add(i.PreviousBalance, i.TotalCharges)
    IN  IF balanceWithCharges.err # ""
        THEN [err |-> balanceWithCharges.err, inv |-> i]
        ELSE [err |-> "", inv |-> [i EXCEPT !.ClosingBalance = balanceWithCharges.val]]

recalculateBalance(i) ==
    LET balanceWithCharges == Add(i.PreviousBalance, i.TotalCharges)
    IN  IF balanceWithCharges.err # ""
        THEN [err |-> balanceWithCharges.err, inv |-> i]
        ELSE LET closingBalance == Subtract(balanceWithCharges.val, i.TotalPayments)
             IN  IF closingBalance.err # ""
                 THEN [err |-> closingBalance.err, inv |-> i]
                 ELSE [err |-> "", inv |-> [i EXCEPT !.ClosingBalance = closingBalance.val]]

\* the id is appended before the totals are touched, so the currency error
\* returns with the id already in the list
addToOpen(i, transactionID, amount, isPayment) ==
         LET appended == [i EXCEPT !.TransactionIDs = Append(@, transactionID)]
             r == IF isPayment THEN Add(i.TotalPayments, amount)
                               ELSE Add(i.TotalCharges, amount)
         IN  IF r.err # ""
             THEN [err |-> r.err, inv |-> appended]
             ELSE recalculateBalance(
                      IF isPayment THEN [appended EXCEPT !.TotalPayments = r.val]
                                   ELSE [appended EXCEPT !.TotalCharges = r.val])

AddTransactionAnyStatus(i, transactionID, amount, isPayment) ==
    addToOpen(i, transactionID, amount, isPayment)

AddTransaction(i, transactionID, amount, isPayment) ==
    IF i.Status # InvoiceStatusOpen
    THEN [err |-> "cannot add transaction to " \o i.Status \o " invoice", inv |-> i]
    ELSE addToOpen(i, transactionID, amount, isPayment)

\* the ids of seq other than id, in order
Without(seq, id) == SelectSeq(seq, LAMBDA x : x # id)

Contains(seq, id) == \E k \in 1..Len(seq) : seq[k] = id

\* every occurrence of the id is dropped; the list is replaced before the
\* totals are touched
RemoveTransaction(i, transactionID, amount, isPayment) ==
    IF i.Status # InvoiceStatusOpen
    THEN [err |-> "cannot remove transaction from " \o i.Status \o " invoice", inv |-> i]
    ELSE IF ~Contains(i.TransactionIDs, transactionID)
    THEN [err |-> "transaction not found in invoice", inv |-> i]
    ELSE LET removed == [i EXCEPT !.TransactionIDs = Without(@, transactionID)]
             r == IF isPayment THEN Subtract(i.TotalPayments, amount)
                               ELSE Subtract(i.TotalCharges, amount)
         IN  IF r.err # ""
             THEN [err |-> r.err, inv |-> removed]
             ELSE recalculateBalance(
                      IF isPayment THEN [removed EXCEPT !.TotalPayments = r.val]
                                   ELSE [removed EXCEPT !.TotalCharges = r.val])

updateStatusIfOverdue(i, t) ==
    IF /\ i.Status = InvoiceStatusClosed
       /\ t > i.DueDate
       /\ ~IsZero(i.ClosingBalance)
       /\ ~IsNegative(i.ClosingBalance)
    THEN [i EXCEPT !.Status = InvoiceStatusOverdue]
    ELSE i

\* Close, but an invoice of any status is closed
InvoiceCloseAnyStatus(i, t) ==
    [err |-> "", inv |-> updateStatusIfOverdue([i EXCEPT !.Status = InvoiceStatusClosed], t)]

\* CreditCardInvoice.Close
InvoiceClose(i, t) ==
    IF i.Status # InvoiceStatusOpen
    THEN [err |-> "invoice is already " \o i.Status, inv |-> i]
    ELSE [err |-> "", inv |-> updateStatusIfOverdue([i EXCEPT !.Status = InvoiceStatusClosed], t)]

MarkAsPaidAnyBalance(i) ==
    IF i.Status = InvoiceStatusPaid
    THEN [err |-> "invoice is already paid", inv |-> i]
    ELSE [err |-> "", inv |-> [i EXCEPT !.Status = InvoiceStatusPaid]]

MarkAsPaid(i) ==
    IF i.Status = InvoiceStatusPaid
    THEN [err |-> "invoice is already paid", inv |-> i]
    ELSE IF ~IsZero(i.ClosingBalance) /\ ~IsNegative(i.ClosingBalance)
    THEN [err |-> "invoice still has outstanding balance", inv |-> i]
    ELSE [err |-> "", inv |-> [i EXCEPT !.Status = InvoiceStatusPaid]]

(***************************************************************************)
(* usecase.CreditCardInvoiceUseCase                                        *)
(***************************************************************************)
\* uuid.New(): an id that no caller has named and the invoice does not list
NewUUID(ids) ==
    CHOOSE n \in (MaxTxn + 1)..(MaxTxn + 1 + Len(ids)) :
        /\ ~Contains(ids, n)
        /\ \A k \in (MaxTxn + 1)..(n - 1) : Contains(ids, k)

\* ProcessPayment up to its store write: the invoice to write, or the error
\* that ends the call before the write; transactionID is the new uuid
ProcessPayment(i, transactionID, amount) ==
    LET added == AddTransaction(i, transactionID, amount, TRUE)
    IN  IF added.err # ""
        THEN [err |-> added.err, inv |-> i]
        ELSE IF IsZero(added.inv.ClosingBalance) \/ IsNegative(added.inv.ClosingBalance)
        THEN LET paid == MarkAsPaid(added.inv)
             IN  IF paid.err # "" THEN [err |-> paid.err, inv |-> i] ELSE paid
        ELSE added

(***************************************************************************)
(* entity.Transaction                                                      *)
(*                                                                         *)
(* Percentages and factors are exact fractions num/den in lowest terms     *)
(* with den > 0; the source holds them in float64.                         *)
(***************************************************************************)
RECURSIVE GCD(_, _)
GCD(a, b) == IF b = 0 THEN a ELSE GCD(b, a % b)

Abs(n) == IF n < 0 THEN 0 - n ELSE n

\* the fraction num/den, den > 0, in lowest terms
Frac(num, den) ==
    LET g == GCD(Abs(num), den)
    IN  [num |-> num \div g, den |-> den \div g]

FracAdd(p, q) == Frac(p.num * q.den + q.num * p.den, p.den * q.den)

FracSub(p, q) == Frac(p.num * q.den - q.num * p.den, p.den * q.den)

FracDiv(p, n) == Frac(p.num, p.den * n)

FracLessEq(p, q) == p.num * q.den <= q.num * p.den

FracGreater(p, q) == p.num * q.den > q.num * p.den

\* math.Round of num/den, den > 0: to the nearest integer, halves away from zero
Round(num, den) ==
    IF num >= 0
    THEN (2 * num + den) \div (2 * den)
    ELSE 0 - ((2 * (0 - num) + den) \div (2 * den))

\* Money.Multiply: the amount times the factor, rounded to cents by NewMoney
Multiply(m, factor) ==
    NewMoney(Round(m.amount * factor.num, factor.den), m.currency)

TransactionTypeDebit == "debit"
TransactionTypeCredit == "credit"

\* the nil uuid pointer of an id field that is not set
NoID == 0

NewTransaction(id, accountID, creditCardID, transactionType, amount, date) ==
    [ID |-> id,
     AccountID |-> accountID,
     CreditCardID |-> creditCardID,
     CreditCardInvoiceID |-> NoID,
     BillID |-> NoID,
     Type |-> transactionType,
     Amount |-> amount,
     Date |-> date,
     SharedWith |-> <<>>]

AssignToBill(t, billID) == [t EXCEPT !.BillID = billID]

AssignToCreditCardInvoice(t, invoiceID) == [t EXCEPT !.CreditCardInvoiceID = invoiceID]

RECURSIVE SumPercentages(_)
\* the percentages of the shares added up in list order
SumPercentages(shares) ==
    IF shares = <<>>
    THEN Frac(0, 1)
    ELSE FracAdd(SumPercentages(SubSeq(shares, 1, Len(shares) - 1)),
                 shares[Len(shares)].Percentage)

SharedExpense(personID, amount, percentage) ==
    [PersonID |-> personID, Amount |-> amount, Percentage |-> percentage]

AddSharedExpenseNoTotalCheck(t, personID, percentage) ==
    IF FracLessEq(percentage, Frac(0, 1)) \/ FracGreater(percentage, Frac(100, 1))
    THEN [err |-> "percentage must be between 0 and 100", txn |-> t]
    ELSE [err |-> "",
          txn |-> [t EXCEPT !.SharedWith =
                      Append(@, SharedExpense(personID,
                                              Multiply(t.Amount, FracDiv(percentage, 100)),
                                              percentage))]]

AddSharedExpense(t, personID, percentage) ==
    IF FracLessEq(percentage, Frac(0, 1)) \/ FracGreater(percentage, Frac(100, 1))
    THEN [err |-> "percentage must be between 0 and 100", txn |-> t]
    ELSE LET totalPercentage == FracAdd(percentage, SumPercentages(t.SharedWith))
         IN  IF FracGreater(totalPercentage, Frac(100, 1))
             THEN [err |-> "total shared percentage cannot exceed 100%", txn |-> t]
             ELSE [err |-> "",
                   txn |-> [t EXCEPT !.SharedWith =
                               Append(@, SharedExpense(personID,
                                                       Multiply(t.Amount, FracDiv(percentage, 100)),
                                                       percentage))]]

\* the shares of SplitEqually: one per person id, in order
SplitShares(amount, personIDs, perPersonPercentage) ==
    [k \in 1..Len(personIDs) |->
        SharedExpense(personIDs[k],
                      Multiply(amount, FracDiv(perPersonPercentage, 100)),
                      perPersonPercentage)]

SplitEquallyFullAmount(t, personIDs) ==
    IF Len(personIDs) = 0
    THEN [err |-> "must provide at least one person to split with", txn |-> t]
    ELSE LET perPersonPercentage == FracDiv(Frac(100, 1), Len(personIDs))
         IN  [err |-> "",
              txn |-> [t EXCEPT !.SharedWith =
                          SplitShares(t.Amount, personIDs, perPersonPercentage)]]

SplitEqually(t, personIDs) ==
    IF Len(personIDs) = 0
    THEN [err |-> "must provide at least one person to split with", txn |-> t]
    ELSE LET percentage == Frac(50, 1)
             perPersonPercentage == FracDiv(percentage, Len(personIDs))
         IN  [err |-> "",
              txn |-> [t EXCEPT !.SharedWith =
                          SplitShares(t.Amount, personIDs, perPersonPercentage)]]

GetPersonalAmount(t) ==
    LET totalSharedPercentage == SumPercentages(t.SharedWith)
        personalPercentage == FracSub(Frac(100, 1), totalSharedPercentage)
    IN  Multiply(t.Amount, FracDiv(personalPercentage, 100))

ClearSharedExpenses(t) == [t EXCEPT !.SharedWith = <<>>]

(***************************************************************************)
(* The calendar of the stores: a month m has two days and three instants,  *)
(* 3m (the first day, 00:00), 3m + 1 (the last day, 00:00) and 3m + 2      *)
(* (later on the last day).                                                *)
(***************************************************************************)
\* date.Year(), date.Month(): the calendar month of an instant
MonthOf(date) == date \div 3

\* time.Date(year, month, 1, 0, 0, 0, 0, loc)
FirstDay(month) == 3 * month

\* time.Date(year, month+1, 1, 0, 0, 0, 0, loc).AddDate(0, 0, -1)
LastDay(month) == 3 * month + 1

\* time.Date(year, month+1, dueDay, 0, 0, 0, 0, loc): the dueDay-th day counted
\* from the first of the following month; a day the month does not have
\* falls in the month after it
DueDateOf(month, dueDay) ==
    IF dueDay <= 2
    THEN 3 * (month + 1) + (dueDay - 1)
    ELSE 3 * (month + 2) + (dueDay - 3)

(***************************************************************************)
(* The documents of the stores.                                            *)
(***************************************************************************)
\* NewCreditCard with its due day
NewCreditCardDue(creditLimit, dueDay) ==
    [CreditLimit |-> creditLimit,
     CurrentBalance |-> NewMoney(0, creditLimit.currency),
     DueDay |-> dueDay]

\* the nil invoice of a failed construction
NoInvoice == [ID |-> NoID]

\* NewCreditCardInvoice with its checks and with the fields the stores query
NewInvoice(id, referenceMonth, openingDate, closingDate, dueDate, previousBalance) ==
    IF closingDate < openingDate
    THEN [err |-> "closing date cannot be before opening date", inv |-> NoInvoice]
    ELSE IF dueDate < closingDate
    THEN [err |-> "due date cannot be before closing date", inv |-> NoInvoice]
    ELSE [err |-> "",
          inv |-> [ID |-> id,
                   ReferenceMonth |-> referenceMonth,
                   OpeningDate |-> openingDate,
                   ClosingDate |-> closingDate,
                   DueDate |-> dueDate,
                   PreviousBalance |-> previousBalance,
                   TotalCharges |-> NewMoney(0, previousBalance.currency),
                   TotalPayments |-> NewMoney(0, previousBalance.currency),
                   ClosingBalance |-> previousBalance,
                   Status |-> InvoiceStatusOpen,
                   TransactionIDs |-> <<>>]]

IsOpen(i) == i.Status = InvoiceStatusOpen

IsClosed(i) ==
    i.Status = InvoiceStatusClosed \/ i.Status = InvoiceStatusPaid
        \/ i.Status = InvoiceStatusOverdue

\* ContainsDate, but the opening date itself is outside the window
ContainsDateAfterOpening(i, date) ==
    date > i.OpeningDate /\ (date = i.ClosingDate \/ date < i.ClosingDate)

ContainsDate(i, date) ==
    (date = i.OpeningDate \/ date > i.OpeningDate)
        /\ (date = i.ClosingDate \/ date < i.ClosingDate)

\* NewBill with the fields the bill store queries
NewStoredBill(id, startDate, endDate, status) ==
    [ID |-> id,
     StartDate |-> startDate,
     EndDate |-> endDate,
     PaidAmount |-> NewMoney(0, "BRL"),
     Status |-> status]

(***************************************************************************)
(* The stores (the MongoDB repositories).  db holds the stored account,    *)
(* the stored card, and the invoice, bill and transaction collections in   *)
(* insertion order.  A call of a use case is given the set of store        *)
(* operations that fail during it.                                         *)
(***************************************************************************)
\* a write to a store: the store and the document written
Write(store, doc) == [store |-> store, doc |-> doc]

StoreOps ==
    {"accountRepo.FindByID", "accountRepo.Update",
     "creditCardRepo.FindByID", "creditCardRepo.Update",
     "creditCardRepo.FindByID (invoice)",
     "creditCardInvoiceRepo.FindByCreditCard", "creditCardInvoiceRepo.FindOpenInvoice",
     "creditCardInvoiceRepo.Create", "creditCardInvoiceRepo.Update",
     "creditCardInvoiceRepo.FindByID", "creditCardInvoiceRepo.FindByMonth",
     "billRepo.FindByDateRange", "transactionRepo.Create"}

RECURSIVE ByMonthDescending(_)
\* the sort of FindByCreditCard: reference month descending, invoices of the
\* same month in insertion order
ByMonthDescending(invoices) ==
    IF invoices = <<>>
    THEN <<>>
    ELSE LET k == CHOOSE k \in 1..Len(invoices) :
                      /\ \A j \in 1..Len(invoices) :
                             invoices[j].ReferenceMonth <= invoices[k].ReferenceMonth
                      /\ \A j \in 1..(k - 1) :
                             invoices[j].ReferenceMonth < invoices[k].ReferenceMonth
         IN  <<invoices[k]>>
                 \o ByMonthDescending(SubSeq(invoices, 1, k - 1)
                                          \o SubSeq(invoices, k + 1, Len(invoices)))

FindByCreditCard(d) == ByMonthDescending(d.invoices)

\* FindOne on status open: the first open invoice of the collection, if any
FindOpenInvoice(d) == SelectSeq(d.invoices, IsOpen)

\* the bills whose window overlaps [startDate, endDate], in collection order
FindByDateRange(d, startDate, endDate) ==
    SelectSeq(d.bills, LAMBDA b : b.StartDate <= endDate /\ b.EndDate >= startDate)

\* Update of an invoice: the stored document of that id is replaced
UpdateInvoice(d, inv) ==
    [d EXCEPT !.invoices =
        [k \in 1..Len(d.invoices) |->
            IF d.invoices[k].ID = inv.ID THEN inv ELSE d.invoices[k]]]

\* the ids the stores hold: of the stored transactions and of the lines of
\* the stored invoices
RECURSIVE InvoiceLines(_)
InvoiceLines(invoices) ==
    IF invoices = <<>>
    THEN <<>>
    ELSE Head(invoices).TransactionIDs \o InvoiceLines(Tail(invoices))

TransactionIDsInUse(d) ==
    [k \in 1..Len(d.transactions) |-> d.transactions[k].ID] \o InvoiceLines(d.invoices)

\* uuid.New() of NewCreditCardInvoice: invoices are numbered as they are made
NewInvoiceID(d) == Len(d.invoices) + 1

\* the previous balance of a new invoice as assignToInvoice seeds it
previousBalanceNewestFirst(invoices, referenceMonth, zero) ==
    LET closed == SelectSeq(invoices,
                            LAMBDA i : IsClosed(i) /\ i.ReferenceMonth < referenceMonth)
    IN  IF closed = <<>> THEN zero ELSE Head(closed).ClosingBalance

(***************************************************************************)
(* usecase.TransactionUseCase                                              *)
(***************************************************************************)
\* selectBill, but a later bill with a window of the same length replaces
\* the selected one
RECURSIVE selectBillLastOnTie(_, _)
selectBillLastOnTie(bills, selectedBill) ==
    IF bills = <<>>
    THEN selectedBill
    ELSE LET b == Head(bills)
         IN  IF b.Status = BillStatusOpen
                /\ (selectedBill = <<>>
                    \/ b.EndDate - b.StartDate
                           <= selectedBill[1].EndDate - selectedBill[1].StartDate)
             THEN selectBillLastOnTie(Tail(bills), <<b>>)
             ELSE selectBillLastOnTie(Tail(bills), selectedBill)

\* the selection loop of autoAssignToBills: the first of the open bills with
\* the shortest window
RECURSIVE selectBill(_, _)
selectBill(bills, selectedBill) ==
    IF bills = <<>>
    THEN selectedBill
    ELSE LET b == Head(bills)
         IN  IF b.Status = BillStatusOpen
                /\ (selectedBill = <<>>
                    \/ b.EndDate - b.StartDate
                           < selectedBill[1].EndDate - selectedBill[1].StartDate)
             THEN selectBill(Tail(bills), <<b>>)
             ELSE selectBill(Tail(bills), selectedBill)

autoAssignToBills(d, t, fail) ==
    IF "billRepo.FindByDateRange" \in fail
    THEN [err |-> "bill store", txn |-> t]
    ELSE LET selectedBill == selectBill(FindByDateRange(d, t.Date, t.Date), <<>>)
         IN  [err |-> "",
              txn |-> IF selectedBill # <<>> THEN AssignToBill(t, selectedBill[1].ID) ELSE t]

\* the end of assignToInvoice, lines 260-278: the invoice is resolved
addToInvoice(d, t, inv, isPayment, fail, writes) ==
    IF ~IsOpen(inv)
    THEN [err |-> "cannot add transaction to closed invoice",
          db |-> d, txn |-> t, writes |-> writes]
    ELSE LET added == AddTransaction(inv, t.ID, t.Amount, isPayment)
         IN  IF added.err # ""
             THEN [err |-> added.err, db |-> d, txn |-> t, writes |-> writes]
             ELSE IF "creditCardInvoiceRepo.Update" \in fail
             THEN [err |-> "failed to update invoice",
                   db |-> d, txn |-> t, writes |-> writes]
             ELSE [err |-> "",
                   db |-> UpdateInvoice(d, added.inv),
                   txn |-> AssignToCreditCardInvoice(t, inv.ID),
                   writes |-> Append(writes, Write("invoice", added.inv))]

assignToInvoice(d, t, isPayment, fail) ==
    IF "creditCardInvoiceRepo.FindByCreditCard" \in fail
    THEN [err |-> "failed to find credit card invoices",
          db |-> d, txn |-> t, writes |-> <<>>]
    ELSE
    LET invoices == FindByCreditCard(d)
        containing == SelectSeq(invoices, LAMBDA i : ContainsDate(i, t.Date))
        openInvoice == IF "creditCardInvoiceRepo.FindOpenInvoice" \in fail
                       THEN <<>>
                       ELSE FindOpenInvoice(d)
        found == IF containing # <<>> THEN containing ELSE openInvoice
    IN  IF found # <<>>
        THEN addToInvoice(d, t, found[1], isPayment, fail, <<>>)
        ELSE IF "creditCardRepo.FindByID (invoice)" \in fail
        THEN [err |-> "failed to get credit card for invoice creation",
              db |-> d, txn |-> t, writes |-> <<>>]
        ELSE
        LET referenceMonth == MonthOf(t.Date)
            previousBalance ==
                previousBalanceNewestFirst(invoices, referenceMonth,
                                           NewMoney(0, d.card.CreditLimit.currency))
            newInvoice == NewInvoice(NewInvoiceID(d),
                                     referenceMonth,
                                     FirstDay(referenceMonth),
                                     LastDay(referenceMonth),
                                     DueDateOf(referenceMonth, d.card.DueDay),
                                     previousBalance)
        IN  IF newInvoice.err # ""
            THEN [err |-> "failed to create invoice", db |-> d, txn |-> t, writes |-> <<>>]
            ELSE IF "creditCardInvoiceRepo.Create" \in fail
            THEN [err |-> "failed to save invoice", db |-> d, txn |-> t, writes |-> <<>>]
            ELSE addToInvoice([d EXCEPT !.invoices = Append(@, newInvoice.inv)],
                              t, newInvoice.inv, isPayment, fail,
                              <<Write("invoice", newInvoice.inv)>>)

\* the stored document of a transaction, of which the model keeps the ids.
\* The conversion copies the account, card and bill ids and never sets the
\* document's invoice id, so the stored transaction has none.
TransactionToModel(t) ==
    [ID |-> t.ID,
     AccountID |-> t.AccountID,
     CreditCardID |-> t.CreditCardID,
     CreditCardInvoiceID |-> NoID,
     BillID |-> t.BillID]

\* lines 68-87 of CreateTransaction: the account is read, debited or
\* credited and written back
updateAccount(d, accountID, transactionType, money, fail) ==
    IF accountID = NoID
    THEN [err |-> "", db |-> d, writes |-> <<>>]
    ELSE IF "accountRepo.FindByID" \in fail
    THEN [err |-> "account not found", db |-> d, writes |-> <<>>]
    ELSE LET r == IF transactionType = TransactionTypeDebit
                  THEN Withdraw(d.account, money)
                  ELSE Deposit(d.account, money)
         IN  IF r.err # ""
             THEN [err |-> r.err, db |-> d, writes |-> <<>>]
             ELSE IF "accountRepo.Update" \in fail
             THEN [err |-> "failed to update account", db |-> d, writes |-> <<>>]
             ELSE [err |-> "",
                   db |-> [d EXCEPT !.account = r.acc],
                   writes |-> <<Write("account", r.acc)>>]

\* updateCard, but the card write is held back instead of reaching the store
updateCardDeferred(d, creditCardID, transactionType, money, fail) ==
    IF creditCardID = NoID
    THEN [err |-> "", db |-> d, writes |-> <<>>]
    ELSE IF "creditCardRepo.FindByID" \in fail
    THEN [err |-> "credit card not found", db |-> d, writes |-> <<>>]
    ELSE LET r == IF transactionType = TransactionTypeDebit
                  THEN Charge(d.card, money)
                  ELSE Payment(d.card, money)
         IN  IF r.err # ""
             THEN [err |-> r.err, db |-> d, writes |-> <<>>]
             ELSE IF "creditCardRepo.Update" \in fail
             THEN [err |-> "failed to update credit card", db |-> d, writes |-> <<>>]
             ELSE [err |-> "", db |-> d, writes |-> <<Write("card", r.card)>>]

\* lines 89-107 of CreateTransaction: the card is read, charged or paid and
\* written back
updateCard(d, creditCardID, transactionType, money, fail) ==
    IF creditCardID = NoID
    THEN [err |-> "", db |-> d, writes |-> <<>>]
    ELSE IF "creditCardRepo.FindByID" \in fail
    THEN [err |-> "credit card not found", db |-> d, writes |-> <<>>]
    ELSE LET r == IF transactionType = TransactionTypeDebit
                  THEN Charge(d.card, money)
                  ELSE Payment(d.card, money)
         IN  IF r.err # ""
             THEN [err |-> r.err, db |-> d, writes |-> <<>>]
             ELSE IF "creditCardRepo.Update" \in fail
             THEN [err |-> "failed to update credit card", db |-> d, writes |-> <<>>]
             ELSE [err |-> "",
                   db |-> [d EXCEPT !.card = r.card],
                   writes |-> <<Write("card", r.card)>>]

\* the result of a CreateTransaction that ends in an error: the stores as the
\* call leaves them, the writes it made, and no transaction
failed(err, d, t, writes) ==
    [err |-> err, db |-> d, txn |-> t, writes |-> writes, warnings |-> {}]

\* CreateTransaction, but a failure of the invoice step or of the bill step
\* ends the call with that error
CreateTransactionStepsFatal(d, accountID, creditCardID, transactionType, money, date, withInvoice, fail) ==
    LET transaction0 == NewTransaction(NewUUID(TransactionIDsInUse(d)), accountID,
                                       creditCardID, transactionType, money, date)
        acc == updateAccount(d, accountID, transactionType, money, fail)
    IN  IF acc.err # ""
        THEN failed(acc.err, acc.db, transaction0, acc.writes)
        ELSE
        LET crd == updateCard(acc.db, creditCardID, transactionType, money, fail)
            writes1 == acc.writes \o crd.writes
        IN  IF crd.err # ""
            THEN failed(crd.err, crd.db, transaction0, writes1)
            ELSE
            LET inv == IF creditCardID # NoID /\ withInvoice
                       THEN assignToInvoice(crd.db, transaction0,
                                            transactionType = TransactionTypeCredit, fail)
                       ELSE [err |-> "", db |-> crd.db, txn |-> transaction0,
                             writes |-> <<>>]
                bil == autoAssignToBills(inv.db, inv.txn, fail)
                writes2 == writes1 \o inv.writes
                warnings == (IF inv.err # "" THEN {"invoice"} ELSE {})
                                \cup (IF bil.err # "" THEN {"bills"} ELSE {})
            IN  IF inv.err # ""
                THEN [failed(inv.err, inv.db, inv.txn, writes2) EXCEPT !.warnings = warnings]
                ELSE IF bil.err # ""
                THEN [failed(bil.err, inv.db, bil.txn, writes2) EXCEPT !.warnings = warnings]
                ELSE IF "transactionRepo.Create" \in fail
                THEN [failed("failed to create transaction", inv.db, bil.txn, writes2)
                          EXCEPT !.warnings = warnings]
                ELSE [err |-> "",
                      db |-> [inv.db EXCEPT !.transactions = Append(@, TransactionToModel(bil.txn))],
                      txn |-> bil.txn,
                      writes |-> Append(writes2, Write("transaction",
                                                       TransactionToModel(bil.txn))),
                      warnings |-> warnings]

\* CreateTransaction of a use case built with (withInvoice) or without the
\* invoice store.  The result holds the error, the stores after the call, the
\* transaction as the call built it, the store writes in the order they were
\* made, and the steps whose failure was only logged.
CreateTransaction(d, accountID, creditCardID, transactionType, money, date, withInvoice, fail) ==
    LET transaction0 == NewTransaction(NewUUID(TransactionIDsInUse(d)), accountID,
                                       creditCardID, transactionType, money, date)
        acc == updateAccount(d, accountID, transactionType, money, fail)
    IN  IF acc.err # ""
        THEN failed(acc.err, acc.db, transaction0, acc.writes)
        ELSE
        LET crd == updateCard(acc.db, creditCardID, transactionType, money, fail)
            writes1 == acc.writes \o crd.writes
        IN  IF crd.err # ""
            THEN failed(crd.err, crd.db, transaction0, writes1)
            ELSE
            LET inv == IF creditCardID # NoID /\ withInvoice
                       THEN assignToInvoice(crd.db, transaction0,
                                            transactionType = TransactionTypeCredit, fail)
                       ELSE [err |-> "", db |-> crd.db, txn |-> transaction0,
                             writes |-> <<>>]
                bil == autoAssignToBills(inv.db, inv.txn, fail)
                writes2 == writes1 \o inv.writes
                warnings == (IF inv.err # "" THEN {"invoice"} ELSE {})
                                \cup (IF bil.err # "" THEN {"bills"} ELSE {})
            IN  IF "transactionRepo.Create" \in fail
                THEN [failed("failed to create transaction", inv.db, bil.txn, writes2)
                          EXCEPT !.warnings = warnings]
                ELSE [err |-> "",
                      db |-> [inv.db EXCEPT !.transactions = Append(@, TransactionToModel(bil.txn))],
                      txn |-> bil.txn,
                      writes |-> Append(writes2, Write("transaction",
                                                       TransactionToModel(bil.txn))),
                      warnings |-> warnings]

(***************************************************************************)
(* usecase.CreditCardInvoiceUseCase over the stores                        *)
(***************************************************************************)
FindByMonth(d, referenceMonth) ==
    SelectSeq(d.invoices, LAMBDA i : i.ReferenceMonth = referenceMonth)

FindByID(d, invoiceID) == SelectSeq(d.invoices, LAMBDA i : i.ID = invoiceID)

Reverse(seq) == [k \in 1..Len(seq) |-> seq[Len(seq) + 1 - k]]

\* the previous balance of a new invoice as CreateInvoice seeds it: the scan
\* runs from the end of the list that FindByCreditCard returns
previousBalanceFromEnd(invoices, referenceMonth, zero) ==
    LET closed == SelectSeq(Reverse(invoices),
                            LAMBDA i : IsClosed(i) /\ i.ReferenceMonth < referenceMonth)
    IN  IF closed = <<>> THEN zero ELSE Head(closed).ClosingBalance

CreateInvoice(d, referenceMonth, openingDate, closingDate, dueDate, fail) ==
    IF "creditCardRepo.FindByID" \in fail
    THEN [err |-> "credit card not found", db |-> d]
    ELSE IF "creditCardInvoiceRepo.FindByMonth" \notin fail
            /\ FindByMonth(d, referenceMonth) # <<>>
    THEN [err |-> "invoice already exists", db |-> d]
    ELSE
    LET zero == NewMoney(0, d.card.CreditLimit.currency)
        previousBalance ==
            IF "creditCardInvoiceRepo.FindByCreditCard" \in fail
            THEN zero
            ELSE previousBalanceFromEnd(FindByCreditCard(d), referenceMonth, zero)
        invoice0 == NewInvoice(NewInvoiceID(d), referenceMonth, openingDate,
                               closingDate, dueDate, previousBalance)
    IN  IF invoice0.err # ""
        THEN [err |-> invoice0.err, db |-> d]
        ELSE IF "creditCardInvoiceRepo.Create" \in fail
        THEN [err |-> "failed to create invoice", db |-> d]
        ELSE [err |-> "", db |-> [d EXCEPT !.invoices = Append(@, invoice0.inv)]]

GetCurrentInvoice(d, t, fail) ==
    IF "creditCardInvoiceRepo.FindOpenInvoice" \notin fail /\ FindOpenInvoice(d) # <<>>
    THEN [err |-> "", db |-> d]
    ELSE IF "creditCardRepo.FindByID" \in fail
    THEN [err |-> "credit card not found", db |-> d]
    ELSE LET referenceMonth == MonthOf(t)
         IN  CreateInvoice(d, referenceMonth, FirstDay(referenceMonth),
                           LastDay(referenceMonth),
                           DueDateOf(referenceMonth, d.card.DueDay), fail)

CloseInvoice(d, invoiceID, createNext, t, fail) ==
    IF "creditCardInvoiceRepo.FindByID" \in fail \/ FindByID(d, invoiceID) = <<>>
    THEN [err |-> "credit card invoice not found", db |-> d]
    ELSE
    LET closed == InvoiceClose(FindByID(d, invoiceID)[1], t)
    IN  IF closed.err # ""
        THEN [err |-> closed.err, db |-> d]
        ELSE IF "creditCardInvoiceRepo.Update" \in fail
        THEN [err |-> "failed to close invoice", db |-> d]
        ELSE
        LET d1 == UpdateInvoice(d, closed.inv)
        IN  IF ~createNext
            THEN [err |-> "", db |-> d1]
            ELSE IF "creditCardRepo.FindByID" \in fail
            THEN [err |-> "credit card not found", db |-> d1]
            ELSE
            LET referenceMonth == closed.inv.ReferenceMonth + 1
                next == CreateInvoice(d1, referenceMonth, FirstDay(referenceMonth),
                                      LastDay(referenceMonth),
                                      DueDateOf(referenceMonth, d.card.DueDay), fail)
            IN  IF next.err # ""
                THEN [err |-> "failed to create next invoice", db |-> d1]
                ELSE next

(***************************************************************************)
(* The entities at rest, for the specifications that do not drive them.    *)
(***************************************************************************)
IdleAccount == NewAccount(AccountTypeChecking, NewMoney(0, "BRL"))
IdleCard == NewCreditCard(NewMoney(0, "BRL"))
IdleBill == NewBill(0, NewMoney(0, "BRL"), 0)
IdleInvoice == NewCreditCardInvoice(0, NewMoney(0, "BRL"))
IdleTransaction ==
    NewTransaction(1, NoID, NoID, TransactionTypeDebit, NewMoney(0, "BRL"), 0)
IdleDB ==
    [account |-> IdleAccount,
     card |-> NewCreditCardDue(NewMoney(0, "BRL"), 1),
     invoices |-> <<>>,
     bills |-> <<>>,
     transactions |-> <<>>]

(***************************************************************************)
(* Accounts under Deposit and Withdraw.                                    *)
(***************************************************************************)
InitAccount ==
    /\ \E t \in AccountTypes, m \in MoneyArgs :
           /\ account = NewAccount(t, m)
           /\ last = Call("NewAccount", m, "", NewAccount(t, m))
    /\ card = IdleCard
    /\ charged = FALSE
    /\ bill = IdleBill
    /\ invoice = IdleInvoice
    /\ now = 0
    /\ transaction = IdleTransaction
    /\ db = IdleDB

DoDeposit ==
    \E amount \in MoneyArgs :
        LET r == Deposit(account, amount)
        IN  /\ InBalance(r.acc.Balance)
            /\ account' = r.acc
            /\ last' = Call("Deposit", amount, r.err, account)
            /\ UNCHANGED <<card, charged, bill, invoice, now, transaction, db>>

DoWithdraw ==
    \E amount \in MoneyArgs :
        LET r == Withdraw(account, amount)
        IN  /\ InBalance(r.acc.Balance)
            /\ account' = r.acc
            /\ last' = Call("Withdraw", amount, r.err, account)
            /\ UNCHANGED <<card, charged, bill, invoice, now, transaction, db>>

NextAccount == DoDeposit \/ DoWithdraw

SpecAccount == InitAccount /\ [][NextAccount]_vars

\* C1: a withdrawal of the account's currency whose result would be negative
\* fails with insufficient funds and leaves the balance unchanged on a savings
\* or investment account, and succeeds on a checking account, whose balance
\* becomes the (negative) difference.
C1_WithdrawOverdraftPolicy ==
    (/\ last.op = "Withdraw"
     /\ last.amount.currency = last.before.Balance.currency
     /\ last.before.Balance.amount - last.amount.amount < 0)
    => IF last.before.Type \in {AccountTypeSavings, AccountTypeInvestment}
       THEN /\ last.err = "insufficient funds"
            /\ account.Balance = last.before.Balance
       ELSE /\ last.err = ""
            /\ account.Balance.amount = last.before.Balance.amount - last.amount.amount
            /\ account.Balance.amount < 0

\* an investment account with a positive balance has just refused an overdraft
C1_Witness ==
    /\ last.op = "Withdraw"
    /\ account.Type = AccountTypeInvestment
    /\ last.before.Balance.amount > 0
    /\ last.before.Balance.amount - last.amount.amount < 0
    /\ last.err = "insufficient funds"

(***************************************************************************)
(* Cards under Charge and Payment.                                         *)
(***************************************************************************)
InitCard ==
    /\ \E l \in Limits, cur \in Currencies :
           /\ card = NewCreditCard(NewMoney(l, cur))
           /\ last = Call("NewCreditCard", NewMoney(l, cur), "", NewCreditCard(NewMoney(l, cur)))
    /\ charged = FALSE
    /\ account = IdleAccount
    /\ bill = IdleBill
    /\ invoice = IdleInvoice
    /\ now = 0
    /\ transaction = IdleTransaction
    /\ db = IdleDB

DoCharge ==
    \E amount \in MoneyArgs :
        LET r == Charge(card, amount)
        IN  /\ InBalance(r.card.CurrentBalance)
            /\ card' = r.card
            /\ charged' = (charged \/ r.err = "")
            /\ last' = Call("Charge", amount, r.err, card)
            /\ UNCHANGED <<account, bill, invoice, now, transaction, db>>

DoPayment ==
    \E amount \in MoneyArgs :
        LET r == Payment(card, amount)
        IN  /\ InBalance(r.card.CurrentBalance)
            /\ card' = r.card
            /\ last' = Call("Payment", amount, r.err, card)
            /\ UNCHANGED <<account, charged, bill, invoice, now, transaction, db>>

NextCard == DoCharge \/ DoPayment

\* cards driven by Charge and Payment in any interleaving
SpecCard == InitCard /\ [][NextCard]_vars

\* cards driven by Charge alone
SpecCharge == InitCard /\ [][DoCharge]_vars

WithinLimit(c) == c.CurrentBalance.amount <= c.CreditLimit.amount

C3_WithinLimitAfterCharge == charged => WithinLimit(card)

\* C4: a card never holds a negative balance under any sequence of Charge and
\* Payment calls, and a Payment larger than the balance leaves exactly zero.
C4_NoCreditBalance ==
    /\ card.CurrentBalance.amount >= 0
    /\ (/\ last.op = "Payment"
        /\ last.amount.currency = last.before.CurrentBalance.currency
        /\ last.amount.amount > last.before.CurrentBalance.amount)
       => card.CurrentBalance.amount = 0

(***************************************************************************)
(* The clock.                                                              *)
(***************************************************************************)
Tick ==
    /\ now < MaxTime
    /\ now' = now + 1
    /\ UNCHANGED <<account, card, charged, bill, invoice, last, transaction, db>>

(***************************************************************************)
(* Bills under AddPayment and Close.                                       *)
(***************************************************************************)
InitBill ==
    /\ \E d \in Times, m \in MoneyArgs :
           /\ bill = NewBill(d, m, 0)
           /\ last = Call("NewBill", m, "", NewBill(d, m, 0))
    /\ account = IdleAccount
    /\ card = IdleCard
    /\ charged = FALSE
    /\ invoice = IdleInvoice
    /\ now = 0
    /\ transaction = IdleTransaction
    /\ db = IdleDB

DoAddPayment ==
    \E amount \in MoneyArgs :
        LET r == AddPayment(bill, amount, now)
        IN  /\ InBalance(r.bill.PaidAmount)
            /\ bill' = r.bill
            /\ last' = Call("AddPayment", amount, r.err, bill)
            /\ UNCHANGED <<account, card, charged, invoice, now, transaction, db>>

DoBillClose ==
    LET r == BillClose(bill, now)
    IN  /\ bill' = r.bill
        /\ last' = Call("Close", NoMoney, r.err, bill)
        /\ UNCHANGED <<account, card, charged, invoice, now, transaction, db>>

NextBill == DoAddPayment \/ DoBillClose \/ Tick

SpecBill == InitBill /\ [][NextBill]_vars

\* C9: an AddPayment that makes the paid amount equal to the total amount
\* leaves the bill paid, whatever the status before and whether or not the
\* due date has passed.
C9_FullPaymentIsPaid ==
    (last.op = "AddPayment" /\ last.err = "" /\ Equals(bill.PaidAmount, bill.TotalAmount))
    => bill.Status = BillStatusPaid

\* a closed bill past its due date has just been paid in full
C9_Witness ==
    /\ last.op = "AddPayment"
    /\ last.err = ""
    /\ last.before.Status = BillStatusClosed
    /\ ~Equals(last.before.PaidAmount, last.before.TotalAmount)
    /\ bill.UpdatedAt > bill.DueDate
    /\ Equals(bill.PaidAmount, bill.TotalAmount)
    /\ bill.Status = BillStatusPaid

\* C10: Close fails on a paid or closed bill and leaves it unchanged; on an
\* open or overdue bill it succeeds and the bill becomes closed.
C10_CloseTerminal ==
    last.op = "Close"
    => IF last.before.Status \in {BillStatusPaid, BillStatusClosed}
       THEN last.err # "" /\ bill = last.before
       ELSE last.err = "" /\ bill.Status = BillStatusClosed

\* Close has just been refused on a closed bill
C10_Witness ==
    /\ last.op = "Close"
    /\ last.before.Status = BillStatusClosed
    /\ last.err # ""

\* C22: a bill whose status is paid has a paid amount equal to its total
\* amount, also after payments were added to a bill that was already paid.
C22_PaidMeansSettled ==
    bill.Status = BillStatusPaid => Equals(bill.PaidAmount, bill.TotalAmount)

(***************************************************************************)
(* Invoices under the entity methods and the invoice use case.             *)
(***************************************************************************)
TxnIDs == 1..MaxTxn

\* the record of the last invoice call: the method and its result
InvoiceCall(op, err) == Call(op, NoMoney, err, "")

\* the invoice falls due at time 0: it is past due once the clock has moved,
\* and not yet past due for as long as it has not
InitInvoice ==
    /\ \E m \in PreviousBalances : invoice = NewCreditCardInvoice(0, m)
    /\ last = InvoiceCall("NewCreditCardInvoice", "")
    /\ account = IdleAccount
    /\ card = IdleCard
    /\ charged = FALSE
    /\ bill = IdleBill
    /\ now = 0
    /\ transaction = IdleTransaction
    /\ db = IdleDB

InInvoiceBounds(i) ==
    /\ Len(i.TransactionIDs) <= MaxIDs
    /\ InTotal(i.TotalCharges)
    /\ InTotal(i.TotalPayments)

DoAddTransaction ==
    \E transactionID \in TxnIDs, amount \in InvoiceMoneyArgs, isPayment \in BOOLEAN :
        LET r == AddTransaction(invoice, transactionID, amount, isPayment)
        IN  /\ InInvoiceBounds(r.inv)
            /\ invoice' = r.inv
            /\ last' = InvoiceCall("AddTransaction", r.err)
            /\ UNCHANGED <<account, card, charged, bill, now, transaction, db>>

DoRemoveTransaction ==
    \E transactionID \in TxnIDs, amount \in InvoiceMoneyArgs, isPayment \in BOOLEAN :
        LET r == RemoveTransaction(invoice, transactionID, amount, isPayment)
        IN  /\ InInvoiceBounds(r.inv)
            /\ invoice' = r.inv
            /\ last' = InvoiceCall("RemoveTransaction", r.err)
            /\ UNCHANGED <<account, card, charged, bill, now, transaction, db>>

DoInvoiceClose ==
    LET r == InvoiceClose(invoice, now)
    IN  /\ invoice' = r.inv
        /\ last' = InvoiceCall("Close", r.err)
        /\ UNCHANGED <<account, card, charged, bill, now, transaction, db>>

DoMarkAsPaid ==
    LET r == MarkAsPaid(invoice)
    IN  /\ invoice' = r.inv
        /\ last' = InvoiceCall("MarkAsPaid", r.err)
        /\ UNCHANGED <<account, card, charged, bill, now, transaction, db>>

\* the invoice is read from the store, paid and written back; a failing
\* store write leaves the stored invoice as it was
DoProcessPayment ==
    \E amount \in InvoiceMoneyArgs, updateOK \in BOOLEAN :
        LET r == ProcessPayment(invoice, NewUUID(invoice.TransactionIDs), amount)
        IN  /\ InInvoiceBounds(r.inv)
            /\ invoice' = IF r.err = "" /\ updateOK THEN r.inv ELSE invoice
            /\ last' = InvoiceCall("ProcessPayment",
                                   IF r.err # "" THEN r.err
                                   ELSE IF updateOK THEN ""
                                   ELSE "failed to update credit card invoice")
            /\ UNCHANGED <<account, card, charged, bill, now, transaction, db>>

NextInvoice ==
    \/ DoAddTransaction
    \/ DoRemoveTransaction
    \/ DoInvoiceClose
    \/ DoMarkAsPaid
    \/ DoProcessPayment
    \/ Tick

SpecInvoice == InitInvoice /\ [][NextInvoice]_vars

\* C5: the closing balance is always the previous balance plus the total
\* charges minus the total payments, to the cent, also after failing calls.
C5_BalanceIdentity ==
    /\ invoice.ClosingBalance.amount =
           invoice.PreviousBalance.amount + invoice.TotalCharges.amount
               - invoice.TotalPayments.amount
    /\ invoice.ClosingBalance.currency = invoice.PreviousBalance.currency

\* a removal has just succeeded on an invoice that holds charges and payments
C5_Witness ==
    /\ last.op = "RemoveTransaction"
    /\ last.err = ""
    /\ invoice.TotalCharges.amount # 0
    /\ invoice.TotalPayments.amount # 0
    /\ invoice.ClosingBalance.amount # invoice.PreviousBalance.amount

\* the step is a call of the method op: every call records its method and
\* leaves the clock alone, and the clock's step records nothing
IsCall(op) == last'.op = op /\ now' = now

\* the fields of the invoice that the transaction methods maintain
Ledger(i) == <<i.TransactionIDs, i.TotalCharges, i.TotalPayments, i.ClosingBalance>>

\* C6: an AddTransaction or RemoveTransaction call that returns an error
\* leaves the transaction ids, the totals, the closing balance and the
\* status of the invoice as they were before the call.
C6_RejectedLeavesUnchanged ==
    [][((IsCall("AddTransaction") \/ IsCall("RemoveTransaction")) /\ last'.err # "")
       => (Ledger(invoice') = Ledger(invoice) /\ invoice'.Status = invoice.Status)]_vars

\* C7: AddTransaction and RemoveTransaction fail on an invoice that is not
\* open, and once an invoice is not open it stays so and its transaction
\* ids, totals and closing balance never change again.
C7_OnlyWhileOpen ==
    /\ []((invoice.Status # InvoiceStatusOpen
            /\ last.op \in {"AddTransaction", "RemoveTransaction"}) => last.err # "")
    /\ [][invoice.Status # InvoiceStatusOpen
          => /\ invoice'.Status # InvoiceStatusOpen
             /\ Ledger(invoice') = Ledger(invoice)]_vars

\* an AddTransaction has just been refused on a closed invoice that lists a
\* transaction
C7_Witness ==
    /\ last.op = "AddTransaction"
    /\ last.err # ""
    /\ invoice.Status = InvoiceStatusClosed
    /\ Len(invoice.TransactionIDs) > 0

\* C8: a paid invoice has a closing balance of zero or less, and MarkAsPaid
\* fails and leaves the invoice as it is when the invoice is already paid or
\* its closing balance is positive.
C8_PaidOnlyWhenSettled ==
    /\ [](invoice.Status = InvoiceStatusPaid => invoice.ClosingBalance.amount <= 0)
    /\ [][(IsCall("MarkAsPaid") /\ (invoice.Status = InvoiceStatusPaid
                                     \/ invoice.ClosingBalance.amount > 0))
          => (last'.err # "" /\ invoice' = invoice)]_vars

\* MarkAsPaid has just been refused on an invoice with charges, a smaller
\* payment and so a positive closing balance
C8_Witness ==
    /\ last.op = "MarkAsPaid"
    /\ last.err = "invoice still has outstanding balance"
    /\ invoice.PreviousBalance.amount = 0
    /\ invoice.TotalCharges.amount > invoice.TotalPayments.amount
    /\ invoice.TotalPayments.amount > 0
    /\ invoice.ClosingBalance.amount > 0

\* C20: Close on an invoice that is not open returns an error and leaves the
\* invoice as it was; on an open invoice it changes the status only, to
\* overdue when the current time is after the due date and the closing
\* balance is positive and to closed otherwise; and no step of any
\* operation takes an invoice that is not open back to open.
C20_CloseOnlyOpen ==
    /\ [][IsCall("Close")
          => IF invoice.Status # InvoiceStatusOpen
             THEN last'.err # "" /\ invoice' = invoice
             ELSE /\ last'.err = ""
                  /\ invoice' =
                         [invoice EXCEPT !.Status =
                             IF now > invoice.DueDate /\ invoice.ClosingBalance.amount > 0
                             THEN InvoiceStatusOverdue
                             ELSE InvoiceStatusClosed]]_vars
    /\ [][invoice.Status # InvoiceStatusOpen
          => invoice'.Status # InvoiceStatusOpen]_vars

\* Close has just been refused on an invoice that an earlier Close, after
\* the due date and with a balance owed, had made overdue
C20_Witness ==
    /\ last.op = "Close"
    /\ last.err # ""
    /\ invoice.Status = InvoiceStatusOverdue
    /\ now > invoice.DueDate
    /\ invoice.ClosingBalance.amount > 0

(***************************************************************************)
(* Transactions under the shared-expense methods.                          *)
(***************************************************************************)
People == 1..MaxPeople

\* the lists of at most MaxPeople person ids, repetitions included
PersonIDLists == UNION {[1..n -> People] : n \in 0..MaxPeople}

Percentages == {Frac(25 * q, 1) : q \in (0 - 1)..MaxQuarters}

SharedAmounts ==
    {NewMoney(10000, "BRL")}
        \cup {NewMoney(c, "BRL") : c \in (0 - MaxSharedAmount)..MaxSharedAmount}

\* the record of the last call on the transaction: the method, its argument
\* (a percentage or a list of person ids) and its result
TransactionCall(op, arg, err) == [op |-> op, arg |-> arg, err |-> err]

InitShare ==
    /\ \E amount \in SharedAmounts :
           transaction = NewTransaction(1, 1, NoID, TransactionTypeDebit, amount, 0)
    /\ last = TransactionCall("NewTransaction", <<>>, "")
    /\ account = IdleAccount
    /\ card = IdleCard
    /\ charged = FALSE
    /\ bill = IdleBill
    /\ invoice = IdleInvoice
    /\ db = IdleDB
    /\ now = 0

DoAddSharedExpense ==
    \E personID \in People, percentage \in Percentages :
        LET r == AddSharedExpense(transaction, personID, percentage)
        IN  /\ Len(r.txn.SharedWith) <= MaxShares
            /\ transaction' = r.txn
            /\ last' = TransactionCall("AddSharedExpense", percentage, r.err)
            /\ UNCHANGED <<account, card, charged, bill, invoice, db, now>>

DoSplitEqually ==
    \E personIDs \in PersonIDLists :
        LET r == SplitEqually(transaction, personIDs)
        IN  /\ transaction' = r.txn
            /\ last' = TransactionCall("SplitEqually", personIDs, r.err)
            /\ UNCHANGED <<account, card, charged, bill, invoice, db, now>>

DoClearSharedExpenses ==
    /\ transaction' = ClearSharedExpenses(transaction)
    /\ last' = TransactionCall("ClearSharedExpenses", <<>>, "")
    /\ UNCHANGED <<account, card, charged, bill, invoice, db, now>>

NextShare == DoAddSharedExpense \/ DoSplitEqually \/ DoClearSharedExpenses

SpecShare == InitShare /\ [][NextShare]_vars

InPercentRange(p) == FracGreater(p, Frac(0, 1)) /\ FracLessEq(p, Frac(100, 1))

UseCaseCall(op, err, writes, warnings, txn) ==
    [op |-> op, err |-> err, writes |-> writes, warnings |-> warnings, txn |-> txn]

InStoredBalance(m) == m.amount >= 0 - MaxStoredBalance /\ m.amount <= MaxStoredBalance

InStoreBounds(d) ==
    /\ InStoredBalance(d.account.Balance)
    /\ InStoredBalance(d.card.CurrentBalance)
    /\ Len(d.invoices) <= MaxInvoices
    /\ \A k \in 1..Len(d.invoices) : Len(d.invoices[k].TransactionIDs) <= MaxLines
    /\ Len(d.transactions) <= MaxStored

\* at most one store operation fails during a call
OneFault(ops) == {{}} \cup {{op} : op \in ops}

\* the calls of CreateTransaction with the given arguments (a source is the
\* pair of an account id and a card id, either of which may be nil), on a use case
\* built with or without the invoice store, during which the given store
\* operations fail
CreateTransactionCalls(sources, types, amounts, dates, support, faults) ==
    \E source \in sources, transactionType \in types,
       money \in amounts, date \in dates, withInvoice \in support, fail \in faults :
        LET r == CreateTransaction(db, source[1], source[2], transactionType, money,
                                   date, withInvoice, fail)
        IN  /\ InStoreBounds(r.db)
            /\ db' = r.db
            /\ last' = UseCaseCall("CreateTransaction", r.err, r.writes, r.warnings, r.txn)
            /\ UNCHANGED <<account, card, charged, bill, invoice, transaction, now>>

CloseInvoiceCalls(nexts, faults) ==
    \E invoiceID \in 1..MaxInvoices, createNext \in nexts, fail \in faults :
        LET r == CloseInvoice(db, invoiceID, createNext, now, fail)
        IN  /\ InStoreBounds(r.db)
            /\ db' = r.db
            /\ last' = UseCaseCall("CloseInvoice", r.err, <<>>, {}, IdleTransaction)
            /\ UNCHANGED <<account, card, charged, bill, invoice, transaction, now>>

GetCurrentInvoiceCalls(faults) ==
    \E fail \in faults :
        LET r == GetCurrentInvoice(db, now, fail)
        IN  /\ InStoreBounds(r.db)
            /\ db' = r.db
            /\ last' = UseCaseCall("GetCurrentInvoice", r.err, <<>>, {}, IdleTransaction)
            /\ UNCHANGED <<account, card, charged, bill, invoice, transaction, now>>

\* the calls of CreateInvoice for a month up to MaxMonth, with the dates of
\* that month and the due date the card's due day gives
CreateInvoiceCalls(faults) ==
    \E referenceMonth \in 0..MaxMonth, fail \in faults :
        LET r == CreateInvoice(db, referenceMonth, FirstDay(referenceMonth),
                               LastDay(referenceMonth),
                               DueDateOf(referenceMonth, db.card.DueDay), fail)
        IN  /\ InStoreBounds(r.db)
            /\ db' = r.db
            /\ last' = UseCaseCall("CreateInvoice", r.err, <<>>, {}, IdleTransaction)
            /\ UNCHANGED <<account, card, charged, bill, invoice, transaction, now>>

\* the stores before the first call: a savings account holding 0.01 BRL, a
\* card with a limit of 0.01 BRL whose due day is dueDay, the given bills, and
\* no invoice and no transaction yet
NewStores(dueDay, bills) ==
    [account |-> NewAccount(AccountTypeSavings, NewMoney(1, "BRL")),
     card |-> NewCreditCardDue(NewMoney(1, "BRL"), dueDay),
     invoices |-> <<>>,
     bills |-> bills,
     transactions |-> <<>>]

\* the stores d after the invoice of the month of t was opened and closed at t
WithClosedInvoice(d, t) ==
    CloseInvoice(GetCurrentInvoice(d, t, {}).db, NewInvoiceID(d), FALSE, t, {}).db

\* a specification over the stores starts from one of the given stores at t
InitStores(stores, t) ==
    /\ db \in stores
    /\ now = t
    /\ last = UseCaseCall("", "", <<>>, {}, IdleTransaction)
    /\ account = IdleAccount
    /\ card = IdleCard
    /\ charged = FALSE
    /\ bill = IdleBill
    /\ invoice = IdleInvoice
    /\ transaction = IdleTransaction

\* an open bill over month 0
OneOpenBill == <<NewStoredBill(1, FirstDay(0), LastDay(0), BillStatusOpen)>>

(***************************************************************************)
(* CreateTransaction from an account, a card, both or neither, on the      *)
(* first day of month 0, with every store answering.                       *)
(***************************************************************************)
InitCreate == InitStores({NewStores(1, OneOpenBill)}, 0)

DoCreateTransaction ==
    CreateTransactionCalls({NoID, 1} \X {NoID, 1},
                           {TransactionTypeDebit, TransactionTypeCredit},
                           {NewMoney(1, "BRL"), NewMoney(1, "USD")},
                           {FirstDay(0)}, {TRUE}, {{}})

DoCloseInvoice == CloseInvoiceCalls({FALSE}, {{}})

DoGetCurrentInvoice == GetCurrentInvoiceCalls({{}})

NextCreate == DoCreateTransaction \/ DoCloseInvoice \/ DoGetCurrentInvoice

SpecCreate == InitCreate /\ [][NextCreate]_vars

\* the store writes of the last call to the given stores
WritesTo(stores) == SelectSeq(last.writes, LAMBDA w : w.store \in stores)

\* the last call was a CreateTransaction that the entity refused at its
\* balance step
BalanceRejected ==
    /\ last.op = "CreateTransaction"
    /\ last.err \in {"insufficient funds", "currency mismatch", "credit limit exceeded"}

\* C14: a CreateTransaction whose Withdraw, Deposit, Charge or Payment is
\* refused returns that error and leaves the stores as they were: it makes no
\* store write at all.
C14_RejectedHasNoEffect ==
    /\ [](BalanceRejected => last.writes = <<>>)
    /\ [][(IsCall("CreateTransaction")
           /\ last'.err \in {"insufficient funds", "currency mismatch",
                             "credit limit exceeded"})
          => db' = db]_vars

\* transaction t has exactly one of the two source ids
ExactlyOneSource(t) == (t.AccountID = NoID) # (t.CreditCardID = NoID)

\* C16: every stored transaction has exactly one of accountID and
\* creditCardID, and no CreateTransaction writes both an account and a card
\* balance, or stores a transaction without writing one of them.
C16_ExactlyOneSource ==
    /\ \A k \in 1..Len(db.transactions) : ExactlyOneSource(db.transactions[k])
    /\ last.op = "CreateTransaction"
       => /\ Len(WritesTo({"account", "card"})) <= 1
          /\ WritesTo({"transaction"}) # <<>> => Len(WritesTo({"account", "card"})) = 1

(***************************************************************************)
(* CreateTransaction from an account or from a card, on the first day of   *)
(* month 0, with at most one store operation failing during the call.  The *)
(* card has no invoice yet, or its invoice of month 0 is already closed.   *)
(***************************************************************************)
InitFaults ==
    InitStores({NewStores(1, OneOpenBill),
                WithClosedInvoice(NewStores(1, OneOpenBill), 0)}, 0)

DoCreateTransactionFaulty ==
    CreateTransactionCalls({<<1, NoID>>, <<NoID, 1>>},
                           {TransactionTypeDebit, TransactionTypeCredit},
                           {NewMoney(1, "BRL")},
                           {FirstDay(0)}, {TRUE},
                           OneFault(StoreOps \ {"creditCardInvoiceRepo.FindByID",
                                                "creditCardInvoiceRepo.FindByMonth"}))

NextFaults == DoCreateTransactionFaulty

SpecFaults == InitFaults /\ [][NextFaults]_vars

\* the balance document that the balance step of a CreateTransaction building
\* transaction t writes, given the stores d before the call
BalanceAfter(d, t) ==
    IF t.AccountID # NoID
    THEN IF t.Type = TransactionTypeDebit
         THEN Withdraw(d.account, t.Amount).acc
         ELSE Deposit(d.account, t.Amount).acc
    ELSE IF t.Type = TransactionTypeDebit
         THEN Charge(d.card, t.Amount).card
         ELSE Payment(d.card, t.Amount).card

\* the stores d hold the balance that building t wrote
BalanceCommitted(before, d, t) ==
    IF t.AccountID # NoID
    THEN d.account = BalanceAfter(before, t)
    ELSE d.card = BalanceAfter(before, t)

\* C13: when the invoice step of a CreateTransaction fails (a store error, or
\* the covering invoice is not open) or its bill step fails, the failure is
\* only logged: unless the final insert itself fails, the call returns
\* success, the transaction is appended to the transaction store without an
\* invoice id (if the invoice step failed) or bill id (if the bill step
\* failed), and the balance written before stays in its store.
C13_BestEffortSteps ==
    [][(IsCall("CreateTransaction")
        /\ last'.warnings # {}
        /\ last'.err # "failed to create transaction")
       => /\ last'.err = ""
          /\ db'.transactions = Append(db.transactions, TransactionToModel(last'.txn))
          /\ BalanceCommitted(db, db', last'.txn)
          /\ \E k \in 1..Len(last'.writes) :
                 last'.writes[k].doc = BalanceAfter(db, last'.txn)
          /\ "invoice" \in last'.warnings => last'.txn.CreditCardInvoiceID = NoID
          /\ "bills" \in last'.warnings => last'.txn.BillID = NoID]_vars

\* a charge to the card whose invoice of the month is closed was stored
\* without an invoice id, and the card holds the charge
C13_Witness ==
    /\ last.op = "CreateTransaction"
    /\ last.err = ""
    /\ last.warnings = {"invoice"}
    /\ last.txn.CreditCardID # NoID
    /\ last.txn.Type = TransactionTypeDebit
    /\ Len(db.invoices) = 1
    /\ db.invoices[1].Status = InvoiceStatusClosed
    /\ ContainsDate(db.invoices[1], last.txn.Date)
    /\ db.card.CurrentBalance.amount = 1
    /\ db.transactions # <<>>
    /\ db.transactions[Len(db.transactions)].ID = last.txn.ID
    /\ last.txn.CreditCardInvoiceID = NoID
    /\ db.invoices[1].TransactionIDs = <<>>
\* the place of a store in the order of CreateTransaction's steps
StepOf(store) ==
    IF store \in {"account", "card"} THEN 1 ELSE IF store = "invoice" THEN 2 ELSE 3

\* the writes were made balance first, then invoice, then transaction
InStepOrder(writes) ==
    /\ \A j, k \in 1..Len(writes) :
           j < k => StepOf(writes[j].store) <= StepOf(writes[k].store)
    /\ writes # <<>> => StepOf(writes[1].store) = 1

\* the stores d hold every document of the writes (of an invoice written
\* twice, the later document)
Committed(d, writes) ==
    \A k \in 1..Len(writes) :
        LET w == writes[k]
        IN  \/ w.store = "account" /\ d.account = w.doc
            \/ w.store = "card" /\ d.card = w.doc
            \/ /\ w.store = "invoice"
               /\ \/ \E j \in 1..Len(d.invoices) : d.invoices[j] = w.doc
                  \/ \E l \in (k + 1)..Len(writes) :
                         writes[l].store = "invoice" /\ writes[l].doc.ID = w.doc.ID
            \/ /\ w.store = "transaction"
               /\ \E j \in 1..Len(d.transactions) : d.transactions[j] = w.doc

\* C19: every CreateTransaction writes the balance before any invoice
\* document and both before the transaction; whatever it returns, the writes
\* it made are in the stores afterwards; and when the final insert fails it
\* returns an error with the balance written and no transaction stored.
C19_WriteOrderPartialCommit ==
    /\ [](last.op = "CreateTransaction"
            => InStepOrder(last.writes) /\ Committed(db, last.writes))
    /\ [][(IsCall("CreateTransaction") /\ last'.err = "failed to create transaction")
          => /\ BalanceCommitted(db, db', last'.txn)
             /\ \E k \in 1..Len(last'.writes) :
                    last'.writes[k].doc = BalanceAfter(db, last'.txn)
             /\ db'.transactions = db.transactions
             /\ \A k \in 1..Len(last'.writes) : last'.writes[k].store # "transaction"]_vars

\* the final insert failed after the card was charged and the charge was put
\* on a new invoice: the card holds 0.01, the invoice lists the transaction,
\* and the transaction store is empty
C19_Witness ==
    /\ last.op = "CreateTransaction"
    /\ last.err = "failed to create transaction"
    /\ Len(last.writes) = 3
    /\ last.writes[1].store = "card"
    /\ last.writes[2].store = "invoice"
    /\ last.writes[3].store = "invoice"
    /\ db.card.CurrentBalance.amount = 1
    /\ Len(db.invoices) = 1
    /\ db.invoices[1].TransactionIDs = <<last.txn.ID>>
    /\ db.transactions = <<>>
(***************************************************************************)
(* CreateTransaction from the account on a day of months 0 and 1, over a   *)
(* bill store of up to MaxBills bills of any status, with every store      *)
(* answering.                                                              *)
(***************************************************************************)
\* the windows of the stored bills: months 0 and 1, month 0, month 1
BillWindows ==
    {<<FirstDay(0), LastDay(1)>>, <<FirstDay(0), LastDay(0)>>, <<FirstDay(1), LastDay(1)>>}

BillStatuses == {BillStatusOpen, BillStatusClosed, BillStatusPaid, BillStatusOverdue}

\* the bill collections: bills numbered in insertion order
BillLists ==
    UNION {{[k \in 1..n |-> NewStoredBill(k, f[k][1][1], f[k][1][2], f[k][2])] :
               f \in [1..n -> BillWindows \X BillStatuses]} : n \in 0..MaxBills}

InitBills == InitStores({NewStores(1, bills) : bills \in BillLists}, 0)

DoCreateTransactionDated ==
    CreateTransactionCalls({<<1, NoID>>},
                           {TransactionTypeDebit, TransactionTypeCredit},
                           {NewMoney(1, "BRL")},
                           {FirstDay(0), LastDay(0), FirstDay(1)}, {FALSE}, {{}})

NextBills == DoCreateTransactionDated

SpecBills == InitBills /\ [][NextBills]_vars

\* the positions in the bill collection of the open bills whose window
\* contains the date
OpenCovering(bills, date) ==
    {k \in 1..Len(bills) : /\ bills[k].Status = BillStatusOpen
                           /\ bills[k].StartDate <= date
                           /\ date <= bills[k].EndDate}

Window(b) == b.EndDate - b.StartDate

\* C15: a created transaction carries the id of the open bill whose window
\* contains its date and is the shortest, the earliest in the collection
\* among equally short ones, and no bill id if no open bill contains the
\* date; the stored transaction carries the same id, and no call changes the
\* bill collection.
C15_BillAutoAssignment ==
    [][IsCall("CreateTransaction")
       => /\ db'.bills = db.bills
          /\ last'.err = ""
             => LET t == last'.txn
                    covering == OpenCovering(db.bills, t.Date)
                IN  /\ db'.transactions[Len(db'.transactions)].BillID = t.BillID
                    /\ IF covering = {}
                       THEN t.BillID = NoID
                       ELSE \E k \in covering :
                                /\ t.BillID = db.bills[k].ID
                                /\ \A j \in covering :
                                       /\ Window(db.bills[k]) <= Window(db.bills[j])
                                       /\ Window(db.bills[j]) = Window(db.bills[k])
                                              => k <= j]_vars

\* two open bills over month 0 and a transaction on its last day: the first
\* of the two was chosen
C15_Witness ==
    /\ last.op = "CreateTransaction"
    /\ last.err = ""
    /\ Len(db.bills) = 2
    /\ db.bills[1].Status = BillStatusOpen
    /\ db.bills[2].Status = BillStatusOpen
    /\ db.bills[1].StartDate = FirstDay(0) /\ db.bills[1].EndDate = LastDay(0)
    /\ db.bills[2].StartDate = FirstDay(0) /\ db.bills[2].EndDate = LastDay(0)
    /\ last.txn.Date = LastDay(0)
    /\ last.txn.BillID = db.bills[1].ID
    /\ db.bills[1].PaidAmount.amount = 0
(***************************************************************************)
(* The invoices of the card over months 0..MaxMonth: invoices are created  *)
(* directly, by GetCurrentInvoice, by CloseInvoice and by transactions on  *)
(* the card dated in months 0 and 1, with every store answering.           *)
(***************************************************************************)
InitHistory == InitStores({NewStores(dueDay, <<>>) : dueDay \in 1..3}, 0)

DoCreateInvoice == CreateInvoiceCalls({{}})

DoCloseInvoiceNext == CloseInvoiceCalls({FALSE, TRUE}, {{}})

DoCreateTransactionOnCard ==
    CreateTransactionCalls({<<NoID, 1>>},
                           {TransactionTypeDebit, TransactionTypeCredit},
                           {NewMoney(1, "BRL")},
                           {FirstDay(0), FirstDay(1)}, {TRUE}, {{}})

NextHistory ==
    DoCreateInvoice \/ DoGetCurrentInvoice \/ DoCloseInvoiceNext
        \/ DoCreateTransactionOnCard

SpecHistory == InitHistory /\ [][NextHistory]_vars

\* the positions of the closed invoices of a month before referenceMonth
ClosedBefore(invoices, referenceMonth) ==
    {k \in 1..Len(invoices) :
        IsClosed(invoices[k]) /\ invoices[k].ReferenceMonth < referenceMonth}

\* C17: an invoice added to the store by any call has as previous balance
\* the closing balance of the closed (closed, paid or overdue) invoice with
\* the greatest reference month before its own, and zero if there is none.
C17_PreviousBalanceCarriedForward ==
    [][Len(db'.invoices) = Len(db.invoices) + 1
       => LET new == db'.invoices[Len(db'.invoices)]
              prior == SubSeq(db'.invoices, 1, Len(db.invoices))
              closed == ClosedBefore(prior, new.ReferenceMonth)
          IN  IF closed = {}
              THEN new.PreviousBalance.amount = 0
              ELSE \E k \in closed :
                       /\ \A j \in closed :
                              prior[j].ReferenceMonth <= prior[k].ReferenceMonth
                       /\ new.PreviousBalance = prior[k].ClosingBalance]_vars
(***************************************************************************)
(* Transactions on the card dated in months 0 and 1 over invoices that     *)
(* GetCurrentInvoice opens and CloseInvoice closes, for a card whose due   *)
(* day is the first or last day of a month or a day the month lacks.       *)
(***************************************************************************)
InitResolve == InitStores({NewStores(dueDay, <<>>) : dueDay \in 1..3}, 0)

\* the dates: the first day of month 0, later on its last day (after the
\* closing date, which is that day at 00:00), and the first day of month 1
DoCreateTransactionAnyDay ==
    CreateTransactionCalls({<<NoID, 1>>},
                           {TransactionTypeDebit, TransactionTypeCredit},
                           {NewMoney(1, "BRL")},
                           {FirstDay(0), LastDay(0) + 1, FirstDay(1)}, {TRUE}, {{}})

NextResolve == DoCreateTransactionAnyDay \/ DoCloseInvoice \/ DoGetCurrentInvoice

SpecResolve == InitResolve /\ [][NextResolve]_vars

\* the stored invoices, newest month first, whose window contains the date
Covering(d, date) ==
    SelectSeq(FindByCreditCard(d),
              LAMBDA i : i.OpeningDate <= date /\ date <= i.ClosingDate)

\* invoice inv of the stores d lists transaction t, and t carries its id
Assigned(d, t, id) ==
    /\ t.CreditCardInvoiceID = id
    /\ \E k \in 1..Len(d.invoices) :
           /\ d.invoices[k].ID = id
           /\ \E l \in 1..Len(d.invoices[k].TransactionIDs) :
                  d.invoices[k].TransactionIDs[l] = t.ID

\* the last invoice of the stores d is new and is the one of the month of
\* the date
NewForMonth(before, d, date) ==
    /\ Len(d.invoices) = Len(before.invoices) + 1
    /\ LET new == d.invoices[Len(d.invoices)]
       IN  /\ new.ReferenceMonth = MonthOf(date)
           /\ new.OpeningDate = FirstDay(MonthOf(date))
           /\ new.ClosingDate = LastDay(MonthOf(date))

\* a CreateTransaction on the card has just passed its balance step
CardTransactionCreated ==
    /\ IsCall("CreateTransaction")
    /\ last'.err = ""
    /\ last'.txn.CreditCardID # NoID

C21_CloseCreatesNext ==
    [][(IsCall("CloseInvoice") /\ last'.err = ""
        /\ Len(db'.invoices) = Len(db.invoices) + 1)
       => \E k \in 1..Len(db.invoices) :
              LET closed == db'.invoices[k]
                  next == db'.invoices[Len(db'.invoices)]
              IN  /\ db.invoices[k].Status = InvoiceStatusOpen
                  /\ closed.Status \in {InvoiceStatusClosed, InvoiceStatusOverdue}
                  /\ next.Status = InvoiceStatusOpen
                  /\ next.ReferenceMonth = closed.ReferenceMonth + 1
                  /\ next.PreviousBalance = closed.ClosingBalance]_vars

(***************************************************************************)
(* AccountUseCase.Transfer and CreditCardUseCase over the account store    *)
(* and the card store.                                                     *)
(***************************************************************************)
\* NewCreditCard as CreateCreditCard calls it: the card is linked to an account
NewCreditCardLinked(accountID, creditLimit) ==
    [AccountID |-> accountID,
     CreditLimit |-> creditLimit,
     CurrentBalance |-> NewMoney(0, creditLimit.currency)]

\* accountRepo.FindByID: the stored accounts have the ids 1..Len(accounts), and
\* each call decodes a document of its own
FindAccountByID(d, id, fail) ==
    IF "accountRepo.FindByID" \in fail \/ id \notin 1..Len(d.accounts)
    THEN [err |-> "account not found", acc |-> IdleAccount]
    ELSE [err |-> "", acc |-> d.accounts[id]]

\* accountRepo.Update: the document of the account replaces the stored one
UpdateAccount(d, id, acc) == [d EXCEPT !.accounts[id] = acc]

\* the result of a use case of the ledger that ends in an error
rejected(err, d, writes) == [err |-> err, db |-> d, writes |-> writes]

Transfer(d, fromAccountID, toAccountID, money, fail) ==
    LET fromAccount == FindAccountByID(d, fromAccountID, fail)
        toAccount == FindAccountByID(d, toAccountID, fail)
    IN  IF fromAccount.err # ""
        THEN rejected("source account not found", d, <<>>)
        ELSE IF toAccount.err # ""
        THEN rejected("destination account not found", d, <<>>)
        ELSE LET w == Withdraw(fromAccount.acc, money)
                 p == Deposit(toAccount.acc, money)
             IN  IF w.err # ""
                 THEN rejected("failed to withdraw from source account", d, <<>>)
                 ELSE IF p.err # ""
                 THEN rejected("failed to deposit to destination account", d, <<>>)
                 ELSE IF "accountRepo.Update" \in fail
                 THEN rejected("failed to update source account", d, <<>>)
                 ELSE LET d1 == UpdateAccount(d, fromAccountID, w.acc)
                          d2 == UpdateAccount(d1, toAccountID, p.acc)
                      IN  [err |-> "", db |-> d2,
                           writes |-> <<Write("account", w.acc), Write("account", p.acc)>>]

ChargeCard(d, cardID, money, fail) ==
    IF "creditCardRepo.FindByID" \in fail \/ cardID # 1
    THEN rejected("credit card not found", d, <<>>)
    ELSE LET r == Charge(d.card, money)
         IN  IF r.err # ""
             THEN rejected(r.err, d, <<>>)
             ELSE IF "creditCardRepo.Update" \in fail
             THEN rejected("failed to update credit card", d, <<>>)
             ELSE [err |-> "", db |-> [d EXCEPT !.card = r.card],
                   writes |-> <<Write("card", r.card)>>]

MakePayment(d, cardID, money, fail) ==
    IF "creditCardRepo.FindByID" \in fail \/ cardID # 1
    THEN rejected("credit card not found", d, <<>>)
    ELSE LET found == FindAccountByID(d, d.card.AccountID, fail)
         IN  IF found.err # ""
             THEN rejected("linked account not found", d, <<>>)
             ELSE LET w == Withdraw(found.acc, money)
                      p == Payment(d.card, money)
                  IN  IF w.err # ""
                      THEN rejected("failed to withdraw from account", d, <<>>)
                      ELSE IF p.err # ""
                      THEN rejected("failed to apply payment to card", d, <<>>)
                      ELSE IF "accountRepo.Update" \in fail
                      THEN rejected("failed to update account", d, <<>>)
                      ELSE LET d1 == UpdateAccount(d, d.card.AccountID, w.acc)
                           IN  IF "creditCardRepo.Update" \in fail
                               THEN rejected("failed to update credit card", d1,
                                             <<Write("account", w.acc)>>)
                               ELSE [err |-> "", db |-> [d1 EXCEPT !.card = p.card],
                                     writes |-> <<Write("account", w.acc),
                                                  Write("card", p.card)>>]

\* the amounts the forms of the ledger pass: up to MaxTransfer cents in either
\* currency
TransferAmounts ==
    {NewMoney(cents, currency) : cents \in 1..MaxTransfer, currency \in Currencies}

\* the stored balances stay within MaxLedgerBalance cents
InLedgerBounds(d) ==
    /\ \A id \in 1..Len(d.accounts) :
           /\ d.accounts[id].Balance.amount >= 0 - MaxLedgerBalance
           /\ d.accounts[id].Balance.amount <= MaxLedgerBalance
    /\ d.card.CurrentBalance.amount <= MaxLedgerBalance

\* two accounts of any type opened with up to MaxLedgerBalance cents, and a
\* card linked to one of them with a limit of MaxLedgerBalance cents
InitLedger ==
    /\ \E t1 \in AccountTypes, t2 \in AccountTypes,
          b1 \in 0..MaxLedgerBalance, b2 \in 0..MaxLedgerBalance, linked \in 1..2 :
           db = [accounts |-> <<NewAccount(t1, NewMoney(b1, "BRL")),
                                NewAccount(t2, NewMoney(b2, "BRL"))>>,
                 card |-> NewCreditCardLinked(linked, NewMoney(MaxLedgerBalance, "BRL"))]
    /\ now = 0
    /\ last = UseCaseCall("", "", <<>>, {}, IdleTransaction)
    /\ account = IdleAccount
    /\ card = IdleCard
    /\ charged = FALSE
    /\ bill = IdleBill
    /\ invoice = IdleInvoice
    /\ transaction = IdleTransaction

\* the record of a call of the ledger: its result, the store writes it made
\* in order, the ids it was given and its amount
LedgerCall(op, r, ids, money) ==
    [op |-> op, err |-> r.err, writes |-> r.writes, ids |-> ids, money |-> money]

DoTransfer ==
    \E fromAccountID \in 1..2, toAccountID \in 1..2, money \in TransferAmounts,
       fail \in OneFault({"accountRepo.FindByID", "accountRepo.Update"}) :
        LET r == Transfer(db, fromAccountID, toAccountID, money, fail)
        IN  /\ InLedgerBounds(r.db)
            /\ db' = r.db
            /\ last' = LedgerCall("Transfer", r, <<fromAccountID, toAccountID>>, money)
            /\ UNCHANGED <<account, card, charged, bill, invoice, transaction, now>>

DoChargeCard ==
    \E money \in TransferAmounts :
        LET r == ChargeCard(db, 1, money, {})
        IN  /\ InLedgerBounds(r.db)
            /\ db' = r.db
            /\ last' = LedgerCall("ChargeCard", r, <<1>>, money)
            /\ UNCHANGED <<account, card, charged, bill, invoice, transaction, now>>

DoMakePayment ==
    \E money \in TransferAmounts,
       fail \in OneFault({"accountRepo.FindByID", "accountRepo.Update",
                          "creditCardRepo.FindByID", "creditCardRepo.Update"}) :
        LET r == MakePayment(db, 1, money, fail)
        IN  /\ InLedgerBounds(r.db)
            /\ db' = r.db
            /\ last' = LedgerCall("MakePayment", r, <<1>>, money)
            /\ UNCHANGED <<account, card, charged, bill, invoice, transaction, now>>

NextLedger == DoTransfer \/ DoChargeCard \/ DoMakePayment

SpecLedger == InitLedger /\ [][NextLedger]_vars

\* the sum of the stored account balances, in cents
TotalBalance(d) == d.accounts[1].Balance.amount + d.accounts[2].Balance.amount

\* C23: a Transfer that succeeds leaves the sum of the stored account balances
\* unchanged, whichever accounts it names, and a Transfer rejected at the
\* withdrawal or at the deposit leaves every stored balance unchanged.
C23_TransferConserves ==
    [][IsCall("Transfer")
       => /\ last'.err = "" => TotalBalance(db') = TotalBalance(db)
          /\ last'.err \in {"failed to withdraw from source account",
                            "failed to deposit to destination account"}
             => db'.accounts = db.accounts]_vars

\* C24: a MakePayment that succeeds takes from the linked account exactly
\* what it takes off the card's balance, and a MakePayment whose withdrawal is
\* rejected changes neither.
C24_PaymentOneForOne ==
    [][IsCall("MakePayment")
       => LET linked == db.card.AccountID
          IN  /\ last'.err = ""
                 => db.accounts[linked].Balance.amount - db'.accounts[linked].Balance.amount
                    = db.card.CurrentBalance.amount - db'.card.CurrentBalance.amount
              /\ last'.err = "failed to withdraw from account" => db' = db]_vars

\* C25: while the card has one invoice, open and with a previous balance of
\* zero, that took every charge and payment of the card, the invoice's closing
\* balance equals the card's current balance after every successful
\* CreateTransaction.
C25_CardInvoiceReconciled ==
    (/\ last.op = "CreateTransaction"
     /\ last.err = ""
     /\ last.warnings = {}
     /\ Len(db.invoices) = 1
     /\ db.invoices[1].Status = InvoiceStatusOpen
     /\ IsZero(db.invoices[1].PreviousBalance))
    => Equals(db.invoices[1].ClosingBalance, db.card.CurrentBalance)

(***************************************************************************)
(* CreateTransaction on the card with failing stores, and ProcessPayment   *)
(* on the stored invoices.                                                 *)
(***************************************************************************)
\* CreditCardInvoiceUseCase.ProcessPayment over the stores
ProcessPaymentStored(d, invoiceID, money, fail) ==
    IF "creditCardInvoiceRepo.FindByID" \in fail \/ FindByID(d, invoiceID) = <<>>
    THEN [err |-> "credit card invoice not found", db |-> d]
    ELSE LET r == ProcessPayment(FindByID(d, invoiceID)[1],
                                 NewUUID(TransactionIDsInUse(d)), money)
         IN  IF r.err # ""
             THEN [err |-> r.err, db |-> d]
             ELSE IF "creditCardInvoiceRepo.Update" \in fail
             THEN [err |-> "failed to update invoice", db |-> d]
             ELSE [err |-> "", db |-> UpdateInvoice(d, r.inv)]

ProcessPaymentCalls(amounts, faults) ==
    \E invoiceID \in 1..MaxInvoices, money \in amounts, fail \in faults :
        LET r == ProcessPaymentStored(db, invoiceID, money, fail)
        IN  /\ InStoreBounds(r.db)
            /\ db' = r.db
            /\ last' = UseCaseCall("ProcessPayment", r.err, <<>>, {}, IdleTransaction)
            /\ UNCHANGED <<account, card, charged, bill, invoice, transaction, now>>

InitLines == InitStores({NewStores(1, <<>>)}, 0)

DoCreateTransactionLines ==
    CreateTransactionCalls({<<NoID, 1>>},
                           {TransactionTypeDebit, TransactionTypeCredit},
                           {NewMoney(1, "BRL")}, {FirstDay(0), FirstDay(1)}, {TRUE},
                           OneFault({"creditCardInvoiceRepo.Update", "transactionRepo.Create"}))

DoProcessPaymentStored ==
    ProcessPaymentCalls({NewMoney(1, "BRL")},
                        OneFault({"creditCardInvoiceRepo.FindByID",
                                  "creditCardInvoiceRepo.Update"}))

NextLines ==
    DoCreateTransactionLines \/ DoProcessPaymentStored \/ DoCloseInvoice \/ DoGetCurrentInvoice

SpecLines == InitLines /\ [][NextLines]_vars

\* C26: every id among a stored invoice's transaction ids is the id of a
\* stored transaction whose invoice id is the id of that invoice.
C26_LinesReferToStoredTransactions ==
    \A k \in 1..Len(db.invoices) :
        \A n \in 1..Len(db.invoices[k].TransactionIDs) :
            \E j \in 1..Len(db.transactions) :
                /\ db.transactions[j].ID = db.invoices[k].TransactionIDs[n]
                /\ db.transactions[j].CreditCardInvoiceID = db.invoices[k].ID

\* C27: the stores never hold two invoices of the card for the same reference
\* month.
C27_OneInvoicePerMonth ==
    \A j \in 1..Len(db.invoices), k \in 1..Len(db.invoices) :
        db.invoices[j].ReferenceMonth = db.invoices[k].ReferenceMonth => j = k

RECURSIVE SharedCents(_)
\* the sum of the amounts of the given shares, in cents
SharedCents(shares) ==
    IF shares = <<>> THEN 0 ELSE Head(shares).Amount.amount + SharedCents(Tail(shares))

\* C28: the personal amount and the amounts of the shares add up to the
\* transaction's amount to the cent, and each share is the amount times its
\* percentage over 100, rounded to cents.
C28_SplitConservesAmount ==
    /\ GetPersonalAmount(transaction).amount + SharedCents(transaction.SharedWith)
       = transaction.Amount.amount
    /\ \A k \in 1..Len(transaction.SharedWith) :
           transaction.SharedWith[k].Amount
           = Multiply(transaction.Amount, FracDiv(transaction.SharedWith[k].Percentage, 100))

(***************************************************************************)
(* A stored invoice under every operation that can change its status.      *)
(***************************************************************************)
\* UpdateOverdueInvoices on the stored invoice i at time t: FindByStatus
\* returns it while it is closed, and it is written back as overdue when it
\* is past due with a positive closing balance
UpdateOverdueInvoices(i, t) ==
    IF /\ i.Status = InvoiceStatusClosed
       /\ t > i.DueDate
       /\ ~IsZero(i.ClosingBalance)
       /\ ~IsNegative(i.ClosingBalance)
    THEN [i EXCEPT !.Status = InvoiceStatusOverdue]
    ELSE i

\* a failing store write ends the call with the error of the store and
\* leaves the stored invoice as it was
DoUpdateOverdueInvoices ==
    \E updateOK \in BOOLEAN :
        LET updated == UpdateOverdueInvoices(invoice, now)
        IN  /\ invoice' = IF updateOK THEN updated ELSE invoice
            /\ last' = InvoiceCall("UpdateOverdueInvoices",
                                   IF updated = invoice \/ updateOK THEN ""
                                   ELSE "failed to update credit card invoice")
            /\ UNCHANGED <<account, card, charged, bill, now, transaction, db>>

NextSettle ==
    \/ DoAddTransaction
    \/ DoRemoveTransaction
    \/ DoInvoiceClose
    \/ DoMarkAsPaid
    \/ DoProcessPayment
    \/ DoUpdateOverdueInvoices
    \/ Tick

SpecSettle == InitInvoice /\ [][NextSettle]_vars

\* the invoice is closed or overdue and something is still owed on it
Outstanding(i) ==
    /\ i.Status \in {InvoiceStatusClosed, InvoiceStatusOverdue}
    /\ ~IsZero(i.ClosingBalance)
    /\ ~IsNegative(i.ClosingBalance)

\* C29: an invoice that is closed or overdue with a positive closing balance
\* stays closed or overdue with a positive closing balance under every
\* operation, so it never becomes paid.
C29_OutstandingNeverPaid ==
    [][Outstanding(invoice) => Outstanding(invoice')]_vars

\* MarkAsPaid has just been refused on an overdue invoice that still owes
C29_Witness ==
    /\ last.op = "MarkAsPaid"
    /\ last.err # ""
    /\ invoice.Status = InvoiceStatusOverdue
    /\ invoice.ClosingBalance.amount > 0
    /\ now > invoice.DueDate

\* C30: on an open invoice, AddTransaction followed by RemoveTransaction with
\* the same id, amount and kind restores the transaction ids, the total
\* charges, the total payments and the closing balance, also when the id was
\* already on the invoice.
C30_AddRemoveRoundTrip ==
    \A transactionID \in TxnIDs, amount \in InvoiceMoneyArgs, isPayment \in BOOLEAN :
        LET added == AddTransaction(invoice, transactionID, amount, isPayment)
            removed == RemoveTransaction(added.inv, transactionID, amount, isPayment)
        IN  (invoice.Status = InvoiceStatusOpen /\ added.err = "" /\ removed.err = "")
            => /\ removed.inv.TransactionIDs = invoice.TransactionIDs
               /\ removed.inv.TotalCharges = invoice.TotalCharges
               /\ removed.inv.TotalPayments = invoice.TotalPayments
               /\ removed.inv.ClosingBalance = invoice.ClosingBalance
====
